---- MODULE Spec2Model ----
(***************************************************************************)
(* A model of peresil: the cursor types SlicePoint and StringPoint with    *)
(* their primitive steps (src/slices.rs, src/strings.rs) and the           *)
(* ParseMaster combinator driver that client parsers are run through.      *)
(*                                                                         *)
(* A point is a record [s, offset]: the remaining input and the distance   *)
(* from the start of the original input.  A Progress is a record           *)
(* [point, status]; a status is [kind, val] with kind "Success" (val the   *)
(* parsed value), "Failure" (val the error) or "Panic" (the call unwound:  *)
(* an out-of-range slice index).  The unit error () is the empty tuple and *)
(* the tests' AnError(n) is the one-element tuple <<n>>.                   *)
(***************************************************************************)
EXTENDS Integers, Sequences, FiniteSets, TLC

VARIABLES
    input,      \* the whole input the points are derived from
    pt,         \* the client's current StringPoint
    sp,         \* the client's current SlicePoint
    last,       \* the last cursor primitive called: [op, on, arg, out]
    tracked,    \* ParseMaster: the furthest failure seen so far
    pc,         \* where the client is: "idle", "alt", "zom", "ret", "done"
    alt,        \* the alternation being built (Alternate)
    zom,        \* the repetition being run (zero_or_more's loop state)
    fin         \* the call of ParseMaster::finish that ended the parse

vars == <<input, pt, sp, last, tracked, pc, alt, zom, fin>>

(***************************************************************************)
(* Bounds and input sets                                                   *)
(***************************************************************************)
MaxLen == 2
MaxLit == 1
MaxTag == 2
MaxOpts == 3
MaxSteps == 2
MaxIds == 2
MaxIter == MaxLen + 2
MaxBytes == 8

\* the bytes of the inputs: those of "a", of "b" and of the two-byte "\u00e9"
Alphabet == {97, 98, 195, 169}
RecoverableCodes == {1}
FatalCodes == {128}

ByteVals == {0, 1, 255}

SeqsUpTo(S, n) == UNION {[1..k -> S] : k \in 0..n}
ByteInputs == SeqsUpTo(ByteVals, MaxBytes)

\* u8::is_utf8_char_boundary: not a continuation byte 0x80..0xBF
is_utf8_char_boundary(b) == b < 128 \/ b >= 192

\* a &str is well-formed UTF-8: a sequence of chars of one to four bytes,
\* each a lead byte and the continuation bytes its range allows
RECURSIVE WellFormed(_)
WellFormed(s) ==
    IF s = <<>> THEN TRUE
    ELSE LET b == s[1]
             n == Len(s)
             In(i, lo, hi) == i <= n /\ s[i] >= lo /\ s[i] <= hi
             Rest(k) == WellFormed(SubSeq(s, k + 1, n))
         IN  IF b < 128 THEN Rest(1)
             ELSE IF b \in 194..223
                  THEN In(2, 128, 191) /\ Rest(2)
             ELSE IF b = 224
                  THEN In(2, 160, 191) /\ In(3, 128, 191) /\ Rest(3)
             ELSE IF b \in (225..236) \cup {238, 239}
                  THEN In(2, 128, 191) /\ In(3, 128, 191) /\ Rest(3)
             ELSE IF b = 237
                  THEN In(2, 128, 159) /\ In(3, 128, 191) /\ Rest(3)
             ELSE IF b = 240
                  THEN In(2, 144, 191) /\ In(3, 128, 191) /\ In(4, 128, 191)
                       /\ Rest(4)
             ELSE IF b \in 241..243
                  THEN In(2, 128, 191) /\ In(3, 128, 191) /\ In(4, 128, 191)
                       /\ Rest(4)
             ELSE IF b = 244
                  THEN In(2, 128, 143) /\ In(3, 128, 191) /\ In(4, 128, 191)
                       /\ Rest(4)
             ELSE FALSE

\* the strings of at most n bytes
Strs(n) == {s \in SeqsUpTo(Alphabet, n) : WellFormed(s)}

Inputs == Strs(MaxLen)
Literals == Strs(MaxLit)
Tags == Strs(MaxTag)
Lengths == 0..(MaxLen + 1)
OptLengths == {[some |-> FALSE, v |-> <<>>]} \cup {[some |-> TRUE, v |-> n] : n \in Lengths}
\* the lists of (literal, item) pairs, the item of a pair being its position
IdentifierLists ==
    {[i \in 1..Len(lits) |-> <<lits[i], i>>] : lits \in SeqsUpTo(Tags, MaxIds)}

(***************************************************************************)
(* Option, Status, Progress                                                *)
(***************************************************************************)
None == [some |-> FALSE, v |-> <<>>]
Some(x) == [some |-> TRUE, v |-> x]

Success(point, value) ==
    [point |-> point, status |-> [kind |-> "Success", val |-> value]]

Failure(point, err) ==
    [point |-> point, status |-> [kind |-> "Failure", val |-> err]]

Panic(point) ==
    [point |-> point, status |-> [kind |-> "Panic", val |-> <<>>]]

\* the outcome of a call that returns a plain value: the value, or a panic
Returns(v) == [panicked |-> FALSE, v |-> v]
Panics == [panicked |-> TRUE, v |-> <<>>]

IsSuccess(p) == p.status.kind = "Success"
IsFailure(p) == p.status.kind = "Failure"

\* the closure handed to map and map_err is a function on the payload it is
\* applied to
map(p, f) == IF IsSuccess(p) THEN Success(p.point, f[p.status.val]) ELSE p

map_err(p, f) == IF IsFailure(p) THEN Failure(p.point, f[p.status.val]) ELSE p

(***************************************************************************)
(* SlicePoint (src/slices.rs)                                              *)
(***************************************************************************)
SlicePoint_new(slice) == [s |-> slice, offset |-> 0]

SlicePoint_advance_byAbsolute(self, offset) ==
    IF offset > Len(self.s)
    THEN Panics
    ELSE Returns([s |-> SubSeq(self.s, offset + 1, Len(self.s)),
                  offset |-> offset])

\* &self.s[offset..] panics when offset is beyond the slice
SlicePoint_advance_by(self, offset) ==
    IF offset > Len(self.s)
    THEN Panics
    ELSE Returns([s |-> SubSeq(self.s, offset + 1, Len(self.s)),
                  offset |-> self.offset + offset])

SlicePoint_fail(self) == Failure(self, <<>>)

SlicePoint_success(self, len) ==
    IF len > Len(self.s)
    THEN Panic(self)
    ELSE Success([s |-> SubSeq(self.s, len + 1, Len(self.s)),
                  offset |-> self.offset + len],
                 SubSeq(self.s, 1, len))

SlicePoint_success_opt(self, len) ==
    IF len.some THEN SlicePoint_success(self, len.v) ELSE SlicePoint_fail(self)

SlicePoint_consumeNoZeroCheck(self, len) ==
    IF len <= Len(self.s)
    THEN SlicePoint_success(self, len)
    ELSE SlicePoint_fail(self)

SlicePoint_consumeStrict(self, len) ==
    IF len > 0 /\ len < Len(self.s)
    THEN SlicePoint_success(self, len)
    ELSE SlicePoint_fail(self)

SlicePoint_consume(self, len) ==
    IF len > 0 /\ len <= Len(self.s)
    THEN SlicePoint_success(self, len)
    ELSE SlicePoint_fail(self)

SlicePoint_consume_optAsSuccess(self, len) ==
    IF len.some THEN SlicePoint_success(self, len.v) ELSE SlicePoint_fail(self)

SlicePoint_consume_opt(self, len) ==
    IF len.some THEN SlicePoint_consume(self, len.v) ELSE SlicePoint_fail(self)

\* Point::zero
SlicePoint_zero == [s |-> <<>>, offset |-> 0]

SlicePoint_eqStructural(self, other) == self.s = other.s /\ self.offset = other.offset

\* impl PartialEq for SlicePoint
SlicePoint_eq(self, other) == self.offset = other.offset

SlicePoint_cmp(self, other) ==
    IF self.offset < other.offset THEN "Less"
    ELSE IF self.offset > other.offset THEN "Greater"
    ELSE "Equal"

\* p.s.get(0..n): the first n elements, or nothing when fewer remain
SliceGet(s, n) == IF n <= Len(s) THEN Some(SubSeq(s, 1, n)) ELSE None

SlicePoint_tagLengthOnly(tag, p) ==
    LET got == SliceGet(p.s, Len(tag))
    IN  SlicePoint_success_opt(p, IF got.some THEN Some(Len(got.v)) ELSE None)

SlicePoint_tag(tag, p) ==
    LET got == SliceGet(p.s, Len(tag))
        kept == IF got.some /\ got.v = tag THEN got ELSE None
    IN  SlicePoint_success_opt(p, IF kept.some THEN Some(Len(kept.v)) ELSE None)

\* Progress == Progress: the points by the point type's own equality, the
\* statuses by variant and value
Progress_eq(a, b, points_eq) == points_eq /\ a.status = b.status

(***************************************************************************)
(* ParseNumber for BytePoint (src/bytes/num.rs).  A decoded number is a    *)
(* record [ty, digits]: its type and its base-256 digits, the most         *)
(* significant first; the numbers of the wider types are beyond the        *)
(* integers TLC computes with.                                             *)
(***************************************************************************)
NumTypes ==
    {"u8", "u16", "u32", "u64", "u128",
     "i8", "i16", "i32", "i64", "i128", "f32", "f64"}

\* ::std::mem::size_of::<$num>()
size_of(num) ==
    CASE num \in {"u8", "i8"} -> 1
      [] num \in {"u16", "i16"} -> 2
      [] num \in {"u32", "i32", "f32"} -> 4
      [] num \in {"u64", "i64", "f64"} -> 8
      [] num \in {"u128", "i128"} -> 16

Reverse(s) == [i \in 1..Len(s) |-> s[Len(s) + 1 - i]]

\* $num::from_le_bytes: the first byte is the least significant digit
from_le_bytes(num, n) == [ty |-> num, digits |-> Reverse(n)]

\* $num::from_be_bytes: the first byte is the most significant digit
from_be_bytes(num, n) == [ty |-> num, digits |-> n]

\* [<$num _be>]
number_be(self, num) ==
    LET consumed == SlicePoint_consume(self, size_of(num))
    IN  map(consumed, [n \in {consumed.status.val} |-> from_be_bytes(num, n)])

number_leAsBe(self, num) == number_be(self, num)

\* [<$num _le>]
number_le(self, num) ==
    LET consumed == SlicePoint_consume(self, size_of(num))
    IN  map(consumed, [n \in {consumed.status.val} |-> from_le_bytes(num, n)])

number(self, num, order) ==
    IF order = "le" THEN number_le(self, num) ELSE number_be(self, num)

(***************************************************************************)
(* StringPoint (src/strings.rs)                                            *)
(***************************************************************************)
StringPoint_new(s) == [s |-> s, offset |-> 0]

StringPoint_zero == [s |-> <<>>, offset |-> 0]

\* #[derive(PartialEq, Eq)]: field by field
StringPoint_eq(self, other) == self.s = other.s /\ self.offset = other.offset

StringPoint_cmpReversed(self, other) ==
    IF other.offset < self.offset THEN "Less"
    ELSE IF other.offset > self.offset THEN "Greater"
    ELSE "Equal"

StringPoint_cmp(self, other) ==
    IF self.offset < other.offset THEN "Less"
    ELSE IF self.offset > other.offset THEN "Greater"
    ELSE "Equal"

\* str::is_char_boundary
is_char_boundary(s, index) ==
    IF index = 0 THEN TRUE
    ELSE IF index >= Len(s) THEN index = Len(s)
    ELSE is_utf8_char_boundary(s[index + 1])

StringPoint_toAbsolute(self, other) ==
    IF other.offset > Len(self.s)
    THEN Panics
    ELSE Returns(SubSeq(self.s, 1, other.offset))

\* other.offset - self.offset is a usize: below zero it panics in a build
\* with overflow checks and wraps to a length beyond any string in a build
\* without, where the slicing panics; &self.s[..len] panics when len is
\* beyond the string or inside a char
StringPoint_to(self, other) ==
    IF other.offset < self.offset
    THEN Panics
    ELSE LET len == other.offset - self.offset
         IN  IF ~is_char_boundary(self.s, len)
             THEN Panics
             ELSE Returns(SubSeq(self.s, 1, len))

\* &self.s[..len] and &self.s[len..] panic when len is beyond the string or
\* inside a char
StringPoint_success(self, len) ==
    IF ~is_char_boundary(self.s, len)
    THEN Panic(self)
    ELSE Success([s |-> SubSeq(self.s, len + 1, Len(self.s)),
                  offset |-> self.offset + len],
                 SubSeq(self.s, 1, len))

StringPoint_fail(self) == Failure(self, <<>>)

StringPoint_consume_to(self, l) ==
    IF l.some THEN StringPoint_success(self, l.v) ELSE StringPoint_fail(self)

\* str::starts_with
starts_with(s, val) == Len(val) <= Len(s) /\ SubSeq(s, 1, Len(val)) = val

StringPoint_consume_literal(self, val) ==
    IF starts_with(self.s, val)
    THEN StringPoint_success(self, Len(val))
    ELSE StringPoint_fail(self)

RECURSIVE StringPoint_consume_identifierLastMatch(_, _)
StringPoint_consume_identifierLastMatch(self, identifiers) ==
    IF identifiers = <<>>
    THEN StringPoint_fail(self)
    ELSE LET n == Len(identifiers)
             identifier == identifiers[n][1]
             item == identifiers[n][2]
             consumed == StringPoint_consume_to(self, Some(Len(identifier)))
         IN  IF starts_with(self.s, identifier)
             THEN map(consumed, [matched \in {consumed.status.val} |-> item])
             ELSE StringPoint_consume_identifierLastMatch(
                      self, SubSeq(identifiers, 1, n - 1))

RECURSIVE StringPoint_consume_identifierFrom(_, _)
StringPoint_consume_identifierFrom(self, identifiers) ==
    IF identifiers = <<>>
    THEN StringPoint_fail(self)
    ELSE LET identifier == Head(identifiers)[1]
             item == Head(identifiers)[2]
             consumed == StringPoint_consume_to(self, Some(Len(identifier)))
         IN  IF starts_with(self.s, identifier)
             THEN map(consumed, [matched \in {consumed.status.val} |-> item])
             ELSE StringPoint_consume_identifierFrom(self, Tail(identifiers))

StringPoint_consume_identifier(self, identifiers) ==
    StringPoint_consume_identifierFrom(self, identifiers)

(***************************************************************************)
(* Client parsing functions.  The tests write them as a chain of           *)
(* consume_literal steps, each with its unit error replaced by an AnError  *)
(* and each handed to try_parse!, which returns the step's failure at once *)
(* or passes the step's point and value on.                                *)
(***************************************************************************)
recoverableNever(e) == FALSE

recoverableAlways(e) == TRUE

\* impl Recoverable for AnError
recoverable(e) == e[1] < 128

\* the steps of tests::string_sequential's all, from step n on, each step
\* failing with the AnError of its own number:
\* try_parse! returns the failure of a failed step from the function and
\* hands the point and the value of a successful one to the code after it
RECURSIVE string_sequential_steps(_, _, _, _)
string_sequential_steps(p, lits, n, matched) ==
    IF lits = <<>>
    THEN Success(p, matched)
    ELSE LET step == StringPoint_consume_literal(p, Head(lits))
             r == map_err(step, [unit \in {step.status.val} |-> <<n>>])
         IN  IF IsSuccess(r)
             THEN string_sequential_steps(r.point, Tail(lits), n + 1,
                                          Append(matched, r.status.val))
             ELSE r

RECURSIVE string_sequential_stepsSamePoint(_, _, _, _, _)
string_sequential_stepsSamePoint(p, reached, lits, n, matched) ==
    IF lits = <<>>
    THEN Success(reached, matched)
    ELSE LET step == StringPoint_consume_literal(p, Head(lits))
             r == map_err(step, [unit \in {step.status.val} |-> <<n>>])
         IN  IF IsSuccess(r)
             THEN string_sequential_stepsSamePoint(p, r.point, Tail(lits), n + 1,
                                                   Append(matched, r.status.val))
             ELSE r

string_sequential_allSamePoint(p, lits) ==
    string_sequential_stepsSamePoint(p, p, lits, 1, <<>>)

\* tests::string_sequential: fn all(p), over any literals
string_sequential_all(p, lits) == string_sequential_steps(p, lits, 1, <<>>)

\* what a parsing function's result is to a test: a success, or a failure
\* whose AnError is below 0x80, or a failure whose AnError is not
Outcome(r) ==
    IF IsSuccess(r) THEN "Success"
    ELSE IF r.status.val[1] < 128 THEN "Recoverable"
    ELSE "Fatal"

Parsers ==
    [lits : SeqsUpTo(Literals, MaxSteps) \ {<<>>}, code : RecoverableCodes \cup FatalCodes]

\* a parsing function handed to the driver: a chain of literals like fn all
\* whose failure is mapped to the function's own AnError, as the closures of
\* tests::string_alternate map the failure of their one literal
Run(f, p) ==
    LET r == string_sequential_all(p, f.lits)
    IN  map_err(r, [e \in {r.status.val} |-> <<f.code>>])

\* the points of the inputs: what remains of an input after its first k elements
Points ==
    {[s |-> SubSeq(ik[1], ik[2] + 1, Len(ik[1])), offset |-> ik[2]] :
        ik \in {x \in Inputs \X (0..MaxLen) :
                    x[2] >= Len(x[1]) \/ is_char_boundary(x[1], x[2])}}

\* the results the client's parsing functions return at each point
Results == [p \in Points |-> {Run(f, p) : f \in Parsers}]

(***************************************************************************)
(* ParseMaster: the combinator driver                                      *)
(***************************************************************************)
ParseMaster_new == None

\* the failure kept when `progress`, a failure, is observed
record(t, progress) ==
    IF ~t.some \/ StringPoint_cmp(progress.point, t.v.point) = "Greater"
    THEN Some([point |-> progress.point, err |-> progress.status.val])
    ELSE t

\* alternate(start): an alternation with no option tried yet
alternate(start, t) ==
    [start |-> start, current |-> None, log |-> <<>>, t0 |-> t, done |-> FALSE]

NoAlternate == alternate(StringPoint_zero, None)

option_pointAfterFailure(a) ==
    IF a.current.some /\ IsFailure(a.current.v) THEN a.current.v.point ELSE a.start

\* the point one(f) hands to f: the start point of the alternation
option_point(a) == a.start

\* whether one(f) invokes f: nothing tried yet, or the last try failed recoverably
runs_next(current) ==
    \/ ~current.some
    \/ IsFailure(current.v) /\ recoverable(current.v.status.val)

NoRepeat ==
    [start |-> StringPoint_zero, cur |-> StringPoint_zero, values |-> <<>>,
     f |-> None, hist |-> <<>>, result |-> None]

\* ParseMaster::finish(progress)
finish(t, progress) ==
    IF IsFailure(progress) /\ t.some
       /\ StringPoint_cmp(t.v.point, progress.point) = "Greater"
    THEN Failure(t.v.point, t.v.err)
    ELSE progress

NoCall == [op |-> "none", on |-> StringPoint_zero, arg |-> <<>>, out |-> None]
NoFinish == [src |-> "none", arg |-> None, t |-> None, out |-> None]

(***************************************************************************)
(* The driver specification: one parse, one ParseMaster                    *)
(***************************************************************************)
Init ==
    /\ input \in Inputs
    /\ pt = StringPoint_new(input)
    /\ sp = SlicePoint_new(input)
    /\ last = NoCall
    /\ tracked = ParseMaster_new
    /\ pc = "idle"
    /\ alt = NoAlternate
    /\ zom = NoRepeat
    /\ fin = NoFinish

\* d.alternate(pt)
Alternate ==
    /\ pc = "idle"
    /\ pc' = "alt"
    /\ alt' = alternate(pt, tracked)
    /\ UNCHANGED <<input, pt, sp, last, tracked, zom, fin>>

\* .one(f): f is invoked at the start point unless the alternation is settled
One ==
    /\ pc = "alt"
    /\ Len(alt.log) < MaxOpts
    /\ \E r \in Results[option_point(alt)] :
        LET run == runs_next(alt.current)
        IN  /\ alt' = [alt EXCEPT
                          !.current = IF run THEN Some(r) ELSE @,
                          !.log = Append(@, [inv |-> run,
                                             at |-> option_point(alt),
                                             would |-> Outcome(r),
                                             out |-> IF run THEN Some(r)
                                                     ELSE None])]
            /\ tracked' = IF run /\ IsFailure(r) THEN record(tracked, r)
                          ELSE tracked
    /\ UNCHANGED <<input, pt, sp, last, pc, zom, fin>>

\* .finish() of the alternation: the result is the last option tried
AlternateFinish ==
    /\ pc = "alt"
    /\ alt.current.some
    /\ alt' = [alt EXCEPT !.done = TRUE]
    /\ pc' = "ret"
    /\ UNCHANGED <<input, pt, sp, last, tracked, zom, fin>>

\* d.zero_or_more(pt, f): the call, up to its loop
ZeroOrMore ==
    /\ pc = "idle"
    /\ pc' = "zom"
    /\ \E f \in Parsers :
        zom' = [start |-> pt, cur |-> pt, values |-> <<>>, f |-> Some(f),
                hist |-> <<>>, result |-> None]
    /\ UNCHANGED <<input, pt, sp, last, tracked, alt, fin>>

\* one turn of zero_or_more's loop: apply f to the current point
ZeroOrMoreStep ==
    /\ pc = "zom"
    /\ zom.f.some
    /\ Len(zom.hist) < MaxIter
    /\ LET r == Run(zom.f.v, zom.cur)
       IN  IF IsSuccess(r)
           THEN /\ zom' = [zom EXCEPT !.cur = r.point,
                                      !.values = Append(@, r.status.val),
                                      !.hist = Append(@, r)]
                /\ UNCHANGED <<pt, tracked, pc>>
           ELSE LET res == IF recoverable(r.status.val)
                           THEN Success(zom.cur, zom.values)
                           ELSE Failure(r.point, r.status.val)
                IN  /\ zom' = [zom EXCEPT !.hist = Append(@, r),
                                          !.result = Some(res)]
                    /\ tracked' = record(tracked, r)
                    /\ pc' = "ret"
                    /\ UNCHANGED pt
    /\ UNCHANGED <<input, sp, last, alt, fin>>

\* the client takes the combinator's Progress apart and goes on parsing: from
\* its point after a success, from the point it still holds after a failure
Continue ==
    /\ pc = "ret"
    /\ LET r == IF alt.done THEN alt.current.v ELSE zom.result.v
       IN  pt' = IF IsSuccess(r) THEN r.point ELSE pt
    /\ alt' = NoAlternate
    /\ zom' = NoRepeat
    /\ pc' = "idle"
    /\ UNCHANGED <<input, sp, last, tracked, fin>>

\* d.finish(r), r the alternation's result
FinishAlternate ==
    /\ pc = "ret"
    /\ alt.done
    /\ fin' = [src |-> "alt", arg |-> alt.current, t |-> tracked,
               out |-> Some(finish(tracked, alt.current.v))]
    /\ pc' = "done"
    /\ UNCHANGED <<input, pt, sp, last, tracked, alt, zom>>

\* d.finish(r), r the repetition's result
FinishRepeat ==
    /\ pc = "ret"
    /\ zom.result.some
    /\ fin' = [src |-> "zom", arg |-> zom.result, t |-> tracked,
               out |-> Some(finish(tracked, zom.result.v))]
    /\ pc' = "done"
    /\ UNCHANGED <<input, pt, sp, last, tracked, alt, zom>>

\* d.finish(all(pt)): r the result of a parsing function the client ran itself
FinishClient ==
    /\ pc = "idle"
    /\ \E r \in Results[pt] :
            fin' = [src |-> "client", arg |-> Some(r), t |-> tracked,
                    out |-> Some(finish(tracked, r))]
    /\ pc' = "done"
    /\ UNCHANGED <<input, pt, sp, last, tracked, alt, zom>>

Next ==
    \/ Alternate
    \/ One
    \/ AlternateFinish
    \/ ZeroOrMore
    \/ ZeroOrMoreStep
    \/ Continue
    \/ FinishAlternate
    \/ FinishRepeat
    \/ FinishClient

Spec == Init /\ [][Next]_vars

(***************************************************************************)
(* The cursor specification: a client stepping a SlicePoint and a          *)
(* StringPoint over the same input with the primitive operations, each     *)
(* successful step continuing from the point it returned                   *)
(***************************************************************************)
Call(op, on, arg, out) == [op |-> op, on |-> on, arg |-> arg, out |-> out]

\* sp.consume(len)
CallConsume ==
    /\ last.op = "none"
    /\ \E len \in Lengths :
        LET r == SlicePoint_consume(sp, len)
        IN  last' = Call("consume", sp, len, r)
    /\ UNCHANGED <<input, pt, sp, tracked, pc, alt, zom, fin>>

\* SlicePoint::tag(tag)(sp)
CallTag ==
    /\ last.op = "none"
    /\ \E tag \in Tags :
        LET r == SlicePoint_tag(tag, sp)
        IN  last' = Call("tag", sp, tag, r)
    /\ UNCHANGED <<input, pt, sp, tracked, pc, alt, zom, fin>>

\* pt.consume_literal(val)
CallConsumeLiteral ==
    /\ last.op = "none"
    /\ \E val \in Tags :
        LET r == StringPoint_consume_literal(pt, val)
        IN  last' = Call("consume_literal", pt, val, r)
    /\ UNCHANGED <<input, pt, sp, tracked, pc, alt, zom, fin>>

\* pt.consume_identifier(identifiers)
CallConsumeIdentifier ==
    /\ last.op = "none"
    /\ \E identifiers \in IdentifierLists :
        LET r == StringPoint_consume_identifier(pt, identifiers)
        IN  last' = Call("consume_identifier", pt, identifiers, r)
    /\ UNCHANGED <<input, pt, sp, tracked, pc, alt, zom, fin>>

\* assert_eq!(sp.consume(len), q.consume(len)), q a point of any input
CallSliceEq ==
    /\ last.op = "none"
    /\ \E len \in Lengths, q \in Points :
        LET a == SlicePoint_consume(sp, len)
            b == SlicePoint_consume(q, len)
        IN  last' = Call("slice_eq", a, b,
                         Progress_eq(a, b, SlicePoint_eq(a.point, b.point)))
    /\ UNCHANGED <<input, pt, sp, tracked, pc, alt, zom, fin>>

\* assert_eq!(pt.consume_to(l), q.consume_to(l)), q a point of any input
CallStringEq ==
    /\ last.op = "none"
    /\ \E l \in OptLengths, q \in Points :
        LET a == StringPoint_consume_to(pt, l)
            b == StringPoint_consume_to(q, l)
        IN  /\ a.status.kind # "Panic"
            /\ b.status.kind # "Panic"
            /\ last' = Call("string_eq", a, b,
                             Progress_eq(a, b, StringPoint_eq(a.point, b.point)))
    /\ UNCHANGED <<input, pt, sp, tracked, pc, alt, zom, fin>>

\* p.to(pt), p a point of the same input the client kept
CallTo ==
    /\ last.op = "none"
    /\ \E k \in {i \in 0..Len(input) : is_char_boundary(input, i)} :
        LET p == [s |-> SubSeq(input, k + 1, Len(input)), offset |-> k]
        IN  last' = Call("to", p, pt, StringPoint_to(p, pt))
    /\ UNCHANGED <<input, pt, sp, tracked, pc, alt, zom, fin>>

\* sp.advance_by(offset)
CallAdvanceBy ==
    /\ last.op = "none"
    /\ \E offset \in Lengths :
        last' = Call("advance_by", sp, offset, SlicePoint_advance_by(sp, offset))
    /\ UNCHANGED <<input, pt, sp, tracked, pc, alt, zom, fin>>

\* sp.fail()
CallFail ==
    /\ last.op = "none"
    /\ last' = Call("fail", sp, <<>>, SlicePoint_fail(sp))
    /\ UNCHANGED <<input, pt, sp, tracked, pc, alt, zom, fin>>

\* sp.success(len)
CallSuccess ==
    /\ last.op = "none"
    /\ \E len \in Lengths :
        last' = Call("success", sp, len, SlicePoint_success(sp, len))
    /\ UNCHANGED <<input, pt, sp, tracked, pc, alt, zom, fin>>

\* sp.success_opt(len)
CallSuccessOpt ==
    /\ last.op = "none"
    /\ \E len \in OptLengths :
        last' = Call("success_opt", sp, len, SlicePoint_success_opt(sp, len))
    /\ UNCHANGED <<input, pt, sp, tracked, pc, alt, zom, fin>>

\* sp.consume_opt(len)
CallConsumeOpt ==
    /\ last.op = "none"
    /\ \E len \in OptLengths :
        last' = Call("consume_opt", sp, len, SlicePoint_consume_opt(sp, len))
    /\ UNCHANGED <<input, pt, sp, tracked, pc, alt, zom, fin>>

\* pt.success(len)
CallStringSuccess ==
    /\ last.op = "none"
    /\ \E len \in Lengths :
        last' = Call("string_success", pt, len, StringPoint_success(pt, len))
    /\ UNCHANGED <<input, pt, sp, tracked, pc, alt, zom, fin>>

\* pt.fail()
CallStringFail ==
    /\ last.op = "none"
    /\ last' = Call("string_fail", pt, <<>>, StringPoint_fail(pt))
    /\ UNCHANGED <<input, pt, sp, tracked, pc, alt, zom, fin>>

\* pt.consume_to(l)
CallConsumeTo ==
    /\ last.op = "none"
    /\ \E l \in OptLengths :
        last' = Call("consume_to", pt, l, StringPoint_consume_to(pt, l))
    /\ UNCHANGED <<input, pt, sp, tracked, pc, alt, zom, fin>>

\* sp.u8_le(), sp.u8_be(), ... sp.f64_be()
CallNumber ==
    /\ last.op = "none"
    /\ \E num \in NumTypes, order \in {"le", "be"} :
        LET r == number(sp, num, order)
        IN  last' = Call("number", sp, [num |-> num, order |-> order], r)
    /\ UNCHANGED <<input, pt, sp, tracked, pc, alt, zom, fin>>

\* all(pt): a chain of steps, each a consume_literal under try_parse!
CallSequence ==
    /\ last.op = "none"
    /\ \E lits \in SeqsUpTo(Tags, MaxSteps) \ {<<>>} :
        last' = Call("sequence", pt, lits, string_sequential_all(pt, lits))
    /\ UNCHANGED <<input, pt, sp, tracked, pc, alt, zom, fin>>

SliceOps ==
    {"consume", "tag", "number", "fail", "success", "success_opt", "consume_opt"}
StringOps ==
    {"consume_literal", "consume_identifier", "string_success", "string_fail",
     "consume_to", "sequence"}

\* the client takes the Progress apart and goes on from its point: a success
\* moves the cursor the call was made on, a failure leaves the client at the
\* point it still holds
Proceed ==
    /\ last.op # "none"
    /\ sp' = IF last.op \in SliceOps /\ IsSuccess(last.out)
             THEN last.out.point
             ELSE IF last.op = "advance_by" /\ ~last.out.panicked
                  THEN last.out.v ELSE sp
    /\ pt' = IF last.op \in StringOps /\ IsSuccess(last.out)
             THEN last.out.point ELSE pt
    /\ last' = NoCall
    /\ UNCHANGED <<input, tracked, pc, alt, zom, fin>>

NextCursor ==
    \/ Proceed
    \/ CallConsume
    \/ CallTag
    \/ CallConsumeLiteral
    \/ CallConsumeIdentifier
    \/ CallSliceEq
    \/ CallStringEq
    \/ CallTo
    \/ CallAdvanceBy
    \/ CallFail
    \/ CallSuccess
    \/ CallSuccessOpt
    \/ CallConsumeOpt
    \/ CallStringSuccess
    \/ CallStringFail
    \/ CallConsumeTo
    \/ CallNumber
    \/ CallSequence

SpecCursor == Init /\ [][NextCursor]_vars

(***************************************************************************)
(* The decoder specification: a client reading numbers off a BytePoint     *)
(***************************************************************************)
InitBytes ==
    /\ input \in ByteInputs
    /\ pt = StringPoint_zero
    /\ sp = SlicePoint_new(input)
    /\ last = NoCall
    /\ tracked = ParseMaster_new
    /\ pc = "idle"
    /\ alt = NoAlternate
    /\ zom = NoRepeat
    /\ fin = NoFinish

NextBytes ==
    \/ Proceed
    \/ CallNumber

SpecBytes == InitBytes /\ [][NextBytes]_vars

(***************************************************************************)
(* Properties of the cursor primitives                                     *)
(***************************************************************************)
Advanced(p, len) ==
    [s |-> SubSeq(p.s, len + 1, Len(p.s)), offset |-> p.offset + len]

IsPrefix(lit, s) ==
    /\ Len(lit) <= Len(s)
    /\ \A i \in 1..Len(lit) : lit[i] = s[i]

\* C8: SlicePoint::consume(len) succeeds iff 0 < len <= remaining length; on
\* success the value is the first len remaining elements and the new point
\* is the old one advanced by len; on failure the returned point is the
\* point it was called on.
C8_ConsumeContract ==
    last.op = "consume" =>
        LET p == last.on
            len == last.arg
            r == last.out
        IN  /\ IsSuccess(r) <=> (0 < len /\ len <= Len(p.s))
            /\ IsSuccess(r) =>
                /\ r.status.val = [i \in 1..len |-> p.s[i]]
                /\ r.point = Advanced(p, len)
                /\ Len(r.point.s) = Len(p.s) - len
            /\ ~IsSuccess(r) => r = Failure(p, <<>>)

C8_Witness ==
    /\ last.op = "consume"
    /\ IsSuccess(last.out)
    /\ last.on.offset > 0
    /\ last.out.point.offset = last.on.offset + last.arg

\* C9: tag(literal) and consume_literal(literal) succeed iff the remaining
\* input starts with the literal, then return the matched prefix and a
\* point advanced by the literal's length; otherwise they fail with the
\* point unmoved.  A literal longer than the remaining input is a failure.
C9_LiteralContract ==
    last.op \in {"tag", "consume_literal"} =>
        LET p == last.on
            lit == last.arg
            r == last.out
        IN  /\ IsSuccess(r) <=> IsPrefix(lit, p.s)
            /\ IsSuccess(r) =>
                /\ r.status.val = lit
                /\ r.point = Advanced(p, Len(lit))
            /\ ~IsSuccess(r) => r = Failure(p, <<>>)
            /\ Len(lit) > Len(p.s) => IsFailure(r)

C9_Witness ==
    /\ last.op = "tag"
    /\ IsFailure(last.out)
    /\ last.arg # <<>>
    /\ Len(last.arg) <= Len(last.on.s)
    /\ last.on.offset > 0

\* the indices of the pairs whose literal is a prefix of the remaining input
Matching(p, identifiers) ==
    {i \in 1..Len(identifiers) : IsPrefix(identifiers[i][1], p.s)}

Min(S) == CHOOSE x \in S : \A y \in S : x <= y
Max(S) == CHOOSE x \in S : \A y \in S : x >= y

\* C10: consume_identifier returns the value of the first pair in list order
\* whose literal is a prefix of the remaining input and advances by that
\* literal's length, whatever later pairs match; with no matching literal
\* it fails with the point unchanged.
C10_FirstMatchWins ==
    last.op = "consume_identifier" =>
        LET p == last.on
            ids == last.arg
            r == last.out
            m == Matching(p, ids)
        IN  IF m = {}
            THEN r = Failure(p, <<>>)
            ELSE LET first == ids[Min(m)]
                 IN  r = Success(Advanced(p, Len(first[1])), first[2])

C10_Witness ==
    /\ last.op = "consume_identifier"
    /\ Cardinality(Matching(last.on, last.arg)) = 2
    /\ Len(last.arg[1][1]) < Len(last.arg[2][1])
    /\ Len(last.arg[1][1]) >= 1
    /\ last.out.status.val = last.arg[1][2]

(***************************************************************************)
(* Properties of the combinator driver                                     *)
(***************************************************************************)
NOpts == Len(alt.log)

\* C1: if some option of an alternation succeeds and every option registered
\* before it failed recoverably, the alternation's result is exactly the
\* Progress that option returned, and no option registered after it is
\* invoked.
C1_FirstSuccessWins ==
    \A i \in 1..NOpts :
        (/\ alt.log[i].would = "Success"
         /\ \A j \in 1..(i - 1) : alt.log[j].would = "Recoverable")
        => /\ alt.log[i].inv
           /\ IsSuccess(alt.log[i].out.v)
           /\ alt.current = alt.log[i].out
           /\ \A k \in (i + 1)..NOpts : ~alt.log[k].inv

C1_Witness ==
    /\ alt.done
    /\ NOpts = 3
    /\ alt.log[1].would = "Recoverable"
    /\ alt.log[2].would = "Success"
    /\ alt.log[3].would = "Success"
    /\ ~alt.log[3].inv
    /\ alt.current = alt.log[2].out
    /\ alt.current.v.point.offset > alt.start.offset

\* C2: when an option of an alternation fails with a fatal error, the
\* alternation returns that fatal failure and no option registered after it
\* is invoked, whatever it would have returned.
C2_FatalAborts ==
    \A i \in 1..NOpts :
        (alt.log[i].inv /\ alt.log[i].would = "Fatal")
        => /\ IsFailure(alt.log[i].out.v)
           /\ alt.current = alt.log[i].out
           /\ \A k \in (i + 1)..NOpts : ~alt.log[k].inv

C2_Witness ==
    /\ alt.done
    /\ NOpts = 3
    /\ alt.log[1].would = "Recoverable"
    /\ alt.log[2].would = "Fatal"
    /\ alt.log[2].inv
    /\ alt.log[3].would = "Success"
    /\ ~alt.log[3].inv
    /\ alt.current = alt.log[2].out

AllFailedRecoverably == \A i \in 1..NOpts : alt.log[i].would = "Recoverable"

\* the offsets at which the options of the alternation failed
FailedAt == {alt.log[i].out.v.point.offset : i \in {j \in 1..NOpts : alt.log[j].inv}}

\* the offset of the failure the driver had tracked when the alternation began
TrackedBefore == IF alt.t0.some THEN {alt.t0.v.point.offset} ELSE {}

\* C3 as stated: when every option of an alternation fails recoverably, the
\* failure that finish reports for the alternation's result is at the
\* greatest offset at which any of the options failed.
C3_FurthestOptionFailureReported ==
    (pc = "done" /\ fin.src = "alt" /\ AllFailedRecoverably)
    => /\ IsFailure(fin.out.v)
       /\ fin.out.v.point.offset = Max(FailedAt)

\* C3 amended: when every option of an alternation fails recoverably, the
\* failure that finish reports for the alternation's result is at the
\* greatest of the offsets at which the options failed and the offset of the
\* failure the driver had tracked before the alternation began; on a driver
\* that had tracked none it is the greatest offset at which any option
\* failed, whatever that option's position, not the last option's.
C3_FurthestFailureReported ==
    (pc = "done" /\ fin.src = "alt" /\ AllFailedRecoverably)
    => /\ \A i \in 1..NOpts : alt.log[i].inv
       /\ IsFailure(fin.out.v)
       /\ fin.out.v.point.offset = Max(FailedAt \cup TrackedBefore)
       /\ ~alt.t0.some => fin.out.v.point.offset = Max(FailedAt)

\* a fresh driver reporting the failure of the second of three options
C3_FreshDriverCase ==
    /\ pc = "done"
    /\ fin.src = "alt"
    /\ AllFailedRecoverably
    /\ ~alt.t0.some
    /\ NOpts = 3
    /\ alt.log[2].out.v.point.offset > alt.log[3].out.v.point.offset
    /\ alt.log[2].out.v.point.offset > alt.log[1].out.v.point.offset
    /\ fin.out.v.point.offset = alt.log[2].out.v.point.offset

\* a driver used before reporting the failure it had tracked, further in than
\* every option of the alternation failed
C3_Witness ==
    /\ pc = "done"
    /\ fin.src = "alt"
    /\ AllFailedRecoverably
    /\ NOpts >= 2
    /\ alt.t0.some
    /\ alt.t0.v.point.offset > Max(FailedAt)
    /\ fin.out.v.point.offset = alt.t0.v.point.offset
    /\ fin.out.v.point.offset > alt.current.v.point.offset

\* C4: finish(result) returns a success unchanged whatever failure is
\* tracked; for a failure it returns the tracked furthest failure when that
\* one's point is greater, and result itself otherwise, a tie included.
C4_FinishReconciles ==
    pc = "done" =>
        LET r == fin.arg.v
            o == fin.out.v
        IN  /\ IsSuccess(r) => o = r
            /\ IsFailure(r) =>
                IF fin.t.some /\ fin.t.v.point.offset > r.point.offset
                THEN o = Failure(fin.t.v.point, fin.t.v.err)
                ELSE o = r

C4_Witness ==
    /\ pc = "done"
    /\ IsFailure(fin.arg.v)
    /\ fin.t.some
    /\ fin.t.v.point.offset > fin.arg.v.point.offset
    /\ fin.t.v.err # fin.arg.v.status.val
    /\ fin.out.v = Failure(fin.t.v.point, fin.t.v.err)

\* the successful applications of f in the repetition that has returned
NSucc == Len(zom.hist) - 1

\* C5: zero_or_more, when the first failure of f is recoverable after k >= 0
\* successes, returns Success with the k values in application order at the
\* point of the k-th success; for k = 0 an empty sequence at the start point.
C5_RepetitionCollects ==
    (zom.result.some /\ Outcome(zom.hist[NSucc + 1]) = "Recoverable")
    => /\ \A i \in 1..NSucc : IsSuccess(zom.hist[i])
       /\ zom.result.v =
             Success(IF NSucc = 0 THEN zom.start ELSE zom.hist[NSucc].point,
                     [i \in 1..NSucc |-> zom.hist[i].status.val])

C5_Witness ==
    /\ zom.result.some
    /\ Outcome(zom.hist[NSucc + 1]) = "Recoverable"
    /\ NSucc >= 2
    /\ zom.result.v.point.offset > zom.start.offset
    /\ Len(zom.result.v.status.val) = NSucc

\* C6: zero_or_more, when an application of f fails with a fatal error,
\* returns that fatal failure and not a Success with the values collected.
C6_RepetitionFatal ==
    (zom.result.some /\ Outcome(zom.hist[NSucc + 1]) = "Fatal")
    => zom.result.v = zom.hist[NSucc + 1]

C6_Witness ==
    /\ zom.result.some
    /\ Outcome(zom.hist[NSucc + 1]) = "Fatal"
    /\ NSucc >= 1
    /\ IsFailure(zom.result.v)
    /\ zom.values # <<>>

\* C7: zero_or_more returns after finitely many applications of f.  f is a
\* function of the point alone, so the loop returns exactly when every
\* success of f moves the point on, and then f is applied at most once per
\* remaining element and once more for the failure that ends the loop.
C7_RepetitionTerminates ==
    Len(zom.hist) <= Len(zom.start.s) + 1

(***************************************************************************)
(* Properties of the numeric decoders                                      *)
(***************************************************************************)
\* C11: a decoder of width w fails iff fewer than w bytes remain; a failure
\* returns the point it was called on; a success returns a point with the
\* offset raised by w and the remaining input shortened by w bytes.
C11_DecoderWidth ==
    last.op = "number" =>
        LET p == last.on
            w == size_of(last.arg.num)
            r == last.out
        IN  /\ IsFailure(r) <=> Len(p.s) < w
            /\ IsFailure(r) => r = Failure(p, <<>>)
            /\ ~IsFailure(r) =>
                /\ IsSuccess(r)
                /\ r.point.offset = p.offset + w
                /\ Len(r.point.s) = Len(p.s) - w
                /\ r.point.s = [i \in 1..(Len(p.s) - w) |-> p.s[i + w]]

C11_Witness ==
    /\ last.op = "number"
    /\ IsFailure(last.out)
    /\ last.on.offset > 0
    /\ Len(last.on.s) > 0
    /\ size_of(last.arg.num) <= Len(input)

Unsigned == {"u8", "u16", "u32", "u64", "u128"}

\* the digit of weight 256^i of a decoded number
Coef(v, i) == v.digits[Len(v.digits) - i]

\* 256^i, for the i that keep it within the integers TLC computes with
Pow256(i) == CASE i = 0 -> 1 [] i = 1 -> 256 [] i = 2 -> 65536 [] i = 3 -> 16777216

\* the number a sequence of digits stands for, most significant digit first
RECURSIVE Horner(_)
Horner(d) ==
    IF d = <<>> THEN 0 ELSE 256 * Horner(SubSeq(d, 1, Len(d) - 1)) + d[Len(d)]

RECURSIVE SumLE(_, _)
SumLE(b, i) == IF i < 0 THEN 0 ELSE b[i + 1] * Pow256(i) + SumLE(b, i - 1)

RECURSIVE SumBE(_, _)
SumBE(b, i) ==
    IF i < 0 THEN 0 ELSE b[i + 1] * Pow256(Len(b) - 1 - i) + SumBE(b, i - 1)

\* a number of at most four digits, the leading one below 128 when there are
\* four, is within the integers TLC computes with
Computable(d) == Len(d) <= 3 \/ (Len(d) = 4 /\ d[1] < 128)

\* C12: for an unsigned decoder of width w on bytes b0..b(w-1), the
\* little-endian result is the sum of b_i * 256^i and the big-endian result
\* the sum of b_i * 256^(w-1-i); the two are byte-reversals of each other
\* and both leave the point advanced by w.
C12_ByteOrder ==
    (last.op = "number" /\ last.arg.num \in Unsigned /\ IsSuccess(last.out))
    => LET p == last.on
           num == last.arg.num
           w == size_of(num)
           b == [i \in 1..w |-> p.s[i]]
           v == last.out.status.val
           le == number(p, num, "le")
           be == number(p, num, "be")
       IN  /\ last.arg.order = "le" => \A i \in 0..(w - 1) : Coef(v, i) = b[i + 1]
           /\ last.arg.order = "be" =>
                \A i \in 0..(w - 1) : Coef(v, w - 1 - i) = b[i + 1]
           /\ Computable(v.digits) =>
                Horner(v.digits) = IF last.arg.order = "le"
                                   THEN SumLE(b, w - 1) ELSE SumBE(b, w - 1)
           /\ le.status.val.digits = Reverse(be.status.val.digits)
           /\ last.out.point = Advanced(p, w)
           /\ le.point = be.point

C12_Witness ==
    /\ last.op = "number"
    /\ last.arg.num = "u32"
    /\ last.arg.order = "le"
    /\ IsSuccess(last.out)
    /\ last.on.offset > 0
    /\ last.out.status.val.digits = <<0, 0, 1, 255>>
    /\ Horner(last.out.status.val.digits) = 256 + 255

(***************************************************************************)
(* Equality of Progress values                                             *)
(***************************************************************************)
\* C13 as stated: two Progress values are equal iff their points have the
\* same offset and the same remaining input and their statuses are equal,
\* over SlicePoint as over StringPoint.
C13_EqualityStructural ==
    last.op \in {"slice_eq", "string_eq"} =>
        (last.out <=> (/\ last.on.point.offset = last.arg.point.offset
                       /\ last.on.point.s = last.arg.point.s
                       /\ last.on.status = last.arg.status))

\* C13 amended: over StringPoint two Progress values are equal iff their
\* points have the same offset and the same remaining input and their
\* statuses are equal; over SlicePoint they are equal iff their points have
\* the same offset and their statuses are equal, whatever input remains.
C13_EqualityByPointType ==
    /\ last.op = "string_eq" =>
        (last.out <=> (/\ last.on.point.offset = last.arg.point.offset
                       /\ last.on.point.s = last.arg.point.s
                       /\ last.on.status = last.arg.status))
    /\ last.op = "slice_eq" =>
        (last.out <=> (/\ last.on.point.offset = last.arg.point.offset
                       /\ last.on.status = last.arg.status))

C13_Witness ==
    /\ last.op = "slice_eq"
    /\ last.out
    /\ last.on.point.offset > 0
    /\ last.on.point.s # last.arg.point.s
    /\ IsFailure(last.on)

(***************************************************************************)
(* Slicing between two points                                              *)
(***************************************************************************)
\* C14: for a point p of an input and a point q reached from p by
\* successful steps, p.to(q) is the input from p.offset to q.offset: its
\* length is q.offset - p.offset, and p.to(q) followed by what remains at q
\* is what remains at p.
C14_ToIsSpan ==
    (last.op = "to" /\ last.on.offset <= last.arg.offset) =>
        LET p == last.on
            q == last.arg
            r == last.out
        IN  /\ ~r.panicked
            /\ Len(r.v) = q.offset - p.offset
            /\ r.v \o q.s = p.s
            /\ r.v = SubSeq(input, p.offset + 1, q.offset)

C14_Witness ==
    /\ last.op = "to"
    /\ last.on.offset > 0
    /\ last.arg.offset > last.on.offset
    /\ ~last.out.panicked
    /\ Len(last.out.v) = 1

(***************************************************************************)
(* The tracked failure over a whole parse                                  *)
(***************************************************************************)
\* the failed attempts of the combinator call in progress
FailedAttempts ==
    {alt.log[i].out.v : i \in {j \in 1..NOpts : alt.log[j].inv /\ IsFailure(alt.log[j].out.v)}}
    \cup {zom.hist[i] : i \in {j \in 1..Len(zom.hist) : IsFailure(zom.hist[j])}}

AtLeast(p, q) == p.offset >= q.offset

\* C15: over any sequence of alternation and repetition calls on one driver,
\* the tracked failure's point is at least the point of every failed attempt
\* observed, those of options discarded for a later success and the one
\* that ended a repetition included, and the tracked point never decreases.
C15_TrackedMonotone ==
    /\ [](\A r \in FailedAttempts :
            tracked.some /\ AtLeast(tracked.v.point, r.point))
    /\ [][tracked.some =>
            tracked'.some /\ AtLeast(tracked'.v.point, tracked.v.point)]_vars

C15_Witness ==
    /\ pc = "alt"
    /\ NOpts >= 2
    /\ alt.log[1].inv
    /\ IsFailure(alt.log[1].out.v)
    /\ alt.log[1].out.v.point.offset > alt.start.offset
    /\ IsSuccess(alt.current.v)
    /\ alt.t0.some
    /\ alt.t0.v.point.offset < alt.log[1].out.v.point.offset
    /\ tracked.v.point = alt.log[1].out.v.point

(***************************************************************************)
(* The point the options of an alternation are invoked at                  *)
(***************************************************************************)
\* C16: every option invoked in an alternation receives the start point of
\* the alternation, wherever earlier options failed and however far they
\* got before failing: what it returns is what a parsing function returns
\* at the start point.
C16_OptionsFromStart ==
    \A i \in 1..NOpts :
        alt.log[i].inv =>
            /\ alt.log[i].at = alt.start
            /\ alt.log[i].out.v \in Results[alt.start]
            /\ alt.log[i].out.v.point.offset >= alt.start.offset

C16_Witness ==
    /\ NOpts >= 2
    /\ alt.start.offset > 0
    /\ alt.log[1].inv
    /\ IsFailure(alt.log[1].out.v)
    /\ alt.log[1].out.v.point.offset > alt.start.offset
    /\ alt.log[2].inv
    /\ alt.log[2].at = alt.start

(***************************************************************************)
(* The cursor invariant and the failing primitives                         *)
(***************************************************************************)
\* a point of the input: what remains is the input from its offset on
PointOfInput(p) ==
    /\ p.offset + Len(p.s) = Len(input)
    /\ p.s = SubSeq(input, p.offset + 1, Len(input))

\* C17: every point reached from new(input) by the cursor operations holds
\* the input from its offset to the end, so offset + remaining length is the
\* input's length; a successful step returns a point at an offset no less
\* than the one it was called at, and the point it was called on is as it was.
C17_CursorInvariant ==
    /\ PointOfInput(sp)
    /\ PointOfInput(pt)
    /\ last.op \in SliceOps \cup StringOps =>
        /\ last.on = IF last.op \in SliceOps THEN sp ELSE pt
        /\ IsSuccess(last.out) =>
            /\ PointOfInput(last.out.point)
            /\ last.out.point.offset >= last.on.offset
    /\ last.op = "advance_by" =>
        /\ last.on = sp
        /\ ~last.out.panicked =>
            /\ PointOfInput(last.out.v)
            /\ last.out.v.offset >= last.on.offset

C17_Witness ==
    /\ last.op = "advance_by"
    /\ last.on.offset > 0
    /\ ~last.out.panicked
    /\ last.out.v.offset > last.on.offset
    /\ pt.offset > 0

\* C18: fail() and the None case of success_opt, consume_opt and consume_to
\* return a Failure at the very point they were called on; with Some(l),
\* success_opt and consume_to do what success(l) does and consume_opt what
\* consume(l) does.
C18_FailAndOptional ==
    LET p == last.on
        l == last.arg
        succeeded == Success(Advanced(p, l.v), SubSeq(p.s, 1, l.v))
    IN  /\ last.op \in {"fail", "string_fail"} => last.out = Failure(p, <<>>)
        /\ (last.op \in {"success_opt", "consume_opt", "consume_to"} /\ ~l.some)
            => last.out = Failure(p, <<>>)
        /\ (last.op = "success_opt" /\ l.some) =>
            /\ last.out = SlicePoint_success(p, l.v)
            /\ last.out = IF l.v <= Len(p.s) THEN succeeded ELSE Panic(p)
        /\ (last.op = "consume_to" /\ l.some) =>
            /\ last.out = StringPoint_success(p, l.v)
            /\ last.out = IF l.v <= Len(p.s) /\ WellFormed(SubSeq(p.s, 1, l.v))
                          THEN succeeded ELSE Panic(p)
        /\ (last.op = "consume_opt" /\ l.some) =>
            /\ last.out = SlicePoint_consume(p, l.v)
            /\ last.out = IF 0 < l.v /\ l.v <= Len(p.s)
                          THEN succeeded ELSE Failure(p, <<>>)

C18_Witness ==
    /\ last.op = "consume_opt"
    /\ last.arg.some
    /\ last.arg.v = 0
    /\ last.on.offset > 0
    /\ Len(last.on.s) > 0
    /\ last.out = Failure(last.on, <<>>)

(***************************************************************************)
(* Sequencing with try_parse!                                              *)
(***************************************************************************)
\* the total length of the first i literals
RECURSIVE SumLen(_, _)
SumLen(lits, i) == IF i = 0 THEN 0 ELSE SumLen(lits, i - 1) + Len(lits[i])

\* the point of the input at an offset
PointAt(o) == [s |-> SubSeq(input, o + 1, Len(input)), offset |-> o]

\* C19: in a chain of steps s1..sn under try_parse!, each step receives the
\* point the previous step produced; the first step that fails ends the
\* chain with that step's failure at the point it was attempted at, and no
\* later step is run; if every step succeeds the final offset is the start
\* offset plus the sum of the consumed lengths.
C19_SequenceShortCircuits ==
    last.op = "sequence" =>
        LET p == last.on
            lits == last.arg
            n == Len(lits)
            StartOf(i) == p.offset + SumLen(lits, i - 1)
            Matches(i) ==
                /\ StartOf(i) + Len(lits[i]) <= Len(input)
                /\ lits[i] = SubSeq(input, StartOf(i) + 1, StartOf(i) + Len(lits[i]))
            Failing == {i \in 1..n : ~Matches(i)}
        IN  IF Failing = {}
            THEN /\ last.out = Success(PointAt(p.offset + SumLen(lits, n)), lits)
                 /\ last.out.point.offset = p.offset + SumLen(lits, n)
            ELSE last.out = Failure(PointAt(StartOf(Min(Failing))), <<Min(Failing)>>)

C19_Witness ==
    /\ last.op = "sequence"
    /\ Len(last.arg) = 2
    /\ last.on.offset > 0
    /\ last.out = Failure(last.on, <<1>>)
    /\ last.arg[2] # <<>>
    /\ IsPrefix(last.arg[2], last.on.s)

====
